---- MODULE Spec2Model ----
(***************************************************************************)
(* The port-session registry of src/command.rs and the background read     *)
(* loops its `read` command spawns.                                        *)
(*                                                                         *)
(* Every command takes state.serialports.lock() first and releases it on   *)
(* return, so a command is one atomic step on the registry; a read loop    *)
(* runs on its own thread and takes its steps between the commands.  No    *)
(* code panics while holding the lock, so the lock is never poisoned and   *)
(* the "Cannot get lock" branches are not reachable.                       *)
(***************************************************************************)
EXTENDS Integers, Sequences, FiniteSets, TLC

\* ------------------------------------------------------------------ bounds
\* Threads the model lets `read` spawn, over the whole run.
MaxLoops == 2
\* Bytes the hardware returns in one read call / accepts in one write call.
MaxIo == 1
\* Signals left unreceived in one cancellation channel.
MaxSignals == 1
\* Width of usize, scaled down (the code's is 64 or 32).
UsizeBits == 12

\* ------------------------------------------------------------ constants
\* size.unwrap_or(1024)
DefaultSize == 1024

Paths == {"COM1", "COM2"}
BaudRates == {9600, 19200}
\* vec![0; n] panics with "capacity overflow" when n exceeds isize::MAX.
IsizeMax == 2 ^ (UsizeBits - 1) - 1
NoSize == -1
Sizes == {NoSize, IsizeMax + 1}
\* Byte lengths of the payloads handed to write and write_binary.
PayloadLens == {MaxIo}
HwOutcomes == {"ok", "fail"}
\* An Err(io::Error) where the Ok carries a byte count.
IoError == 0 - 1

NoEntry == [none |-> TRUE]
NoSender == 0
NoPath == ""
NoChunk == [none |-> TRUE]

VARIABLES
    serialports,  \* SerialportState.serialports: path -> SerialportInfo or NoEntry
    loops,        \* the threads `read` has spawned, by channel id
    sink,         \* the last event the window was handed
    last          \* what the last command returned and the hardware call it made

vars == <<serialports, loops, sink, last>>

\* ------------------------------------------------------------- results
\* Error is the single variant Error::String(message); the kind is the message.
Ok(n) == [tag |-> "Ok", n |-> n]
Err(kind) == [tag |-> kind, n |-> 0]
Returned(op, r, io) == [op |-> op, ret |-> r, io |-> io]

\* ------------------------------------------------------------ channels
\* The Sender of channel id lives in the entry's `sender` field and nowhere else.
SenderAlive(id) ==
    \E p \in Paths : serialports[p] # NoEntry /\ serialports[p].sender = id

\* The Receiver lives in the loop's thread: it is dropped when the thread ends.
ReceiverAlive(l) == l.pc \notin {"stopped", "panicked"}

\* sender.send(1): Err exactly when the receiver has been dropped.
SendOk(lp, id) == ReceiverAlive(lp[id])
Send(lp, id) == [lp EXCEPT ![id].signals = @ + 1]

\* rx.try_recv(): a queued signal first, then the disconnection.
TryRecv(id) ==
    IF loops[id].signals > 0 THEN "Ok"
    ELSE IF ~SenderAlive(id) THEN "Disconnected"
    ELSE "Empty"

\* ------------------------------------------------------------ registry
get_serialport(path) == serialports[path]

OpenPaths == {p \in Paths : serialports[p] # NoEntry}

Init ==
    /\ serialports = [p \in Paths |-> NoEntry]
    /\ loops = <<>>
    /\ sink = NoChunk
    /\ last = Returned("none", Err("none"), "none")

\* ------------------------------------------------------------- commands
\* open without the contains_key test: the insert replaces the entry.
open_Overwrite(path, baud_rate, hw) ==
    IF hw = "ok"
    THEN /\ serialports' = [serialports EXCEPT ![path] =
                [serialport |-> [path |-> path, baud_rate |-> baud_rate],
                 sender |-> NoSender]]
         /\ last' = Returned("open", Ok(0), "open")
         /\ UNCHANGED <<loops, sink>>
    ELSE /\ last' = Returned("open", Err("OpenFailed"), "open")
         /\ UNCHANGED <<serialports, loops, sink>>

\* open that inserts the entry before the hardware open and leaves it on failure.
open_PartialEntry(path, baud_rate, hw) ==
    IF serialports[path] # NoEntry
    THEN /\ last' = Returned("open", Err("AlreadyOpen"), "none")
         /\ UNCHANGED <<serialports, loops, sink>>
    ELSE /\ serialports' = [serialports EXCEPT ![path] =
                [serialport |-> [path |-> path, baud_rate |-> baud_rate],
                 sender |-> NoSender]]
         /\ last' = IF hw = "ok" THEN Returned("open", Ok(0), "open")
                    ELSE Returned("open", Err("OpenFailed"), "open")
         /\ UNCHANGED <<loops, sink>>

open(path, baud_rate, hw) ==
    IF serialports[path] # NoEntry
    THEN /\ last' = Returned("open", Err("AlreadyOpen"), "none")
         /\ UNCHANGED <<serialports, loops, sink>>
    ELSE IF hw = "ok"
    THEN /\ serialports' = [serialports EXCEPT ![path] =
                [serialport |-> [path |-> path, baud_rate |-> baud_rate],
                 sender |-> NoSender]]
         /\ last' = Returned("open", Ok(0), "open")
         /\ UNCHANGED <<loops, sink>>
    ELSE /\ last' = Returned("open", Err("OpenFailed"), "open")
         /\ UNCHANGED <<serialports, loops, sink>>

\* close that reports success whether or not the entry was there.
close_AlwaysOk(path) ==
    /\ serialports' = [serialports EXCEPT ![path] = NoEntry]
    /\ last' = Returned("close", Ok(0), "none")
    /\ UNCHANGED <<loops, sink>>

\* close that looks the entry up (get) where the code removes it.
close_KeepsEntry(path) ==
    IF serialports[path] # NoEntry
    THEN /\ last' = Returned("close", Ok(0), "none")
         /\ UNCHANGED <<serialports, loops, sink>>
    ELSE /\ last' = Returned("close", Err("NotFound"), "none")
         /\ UNCHANGED <<serialports, loops, sink>>

close(path) ==
    IF serialports[path] # NoEntry
    THEN /\ serialports' = [serialports EXCEPT ![path] = NoEntry]
         /\ last' = Returned("close", Ok(0), "none")
         /\ UNCHANGED <<loops, sink>>
    ELSE /\ last' = Returned("close", Err("NotFound"), "none")
         /\ UNCHANGED <<serialports, loops, sink>>

\* Iteration orders of map.values(): a HashMap yields its entries in an order
\* that the hash seed of the run chooses.
Orders ==
    {o \in [1..Cardinality(OpenPaths) -> OpenPaths] :
        \A i, j \in DOMAIN o : o[i] = o[j] => i = j}

\* The for loop of close_all over `order` from position i: the channels after the
\* sends made, and whether every send succeeded (the first Err returns).
RECURSIVE SignalAll(_, _, _)
SignalAll(order, i, lp) ==
    IF i > Len(order) THEN [loops |-> lp, ok |-> TRUE]
    ELSE LET id == serialports[order[i]].sender IN
         IF id = NoSender THEN SignalAll(order, i + 1, lp)
         ELSE IF SendOk(lp, id) THEN SignalAll(order, i + 1, Send(lp, id))
         ELSE [loops |-> lp, ok |-> FALSE]

\* The channels hold at most MaxSignals unreceived signals.
Room(id) == loops[id].signals < MaxSignals

\* cancel_read that sends the signal and leaves the sender in the entry.
cancel_read_KeepsSender(path) ==
    LET info == get_serialport(path) IN
    IF info = NoEntry
    THEN /\ last' = Returned("cancel_read", Err("NotFound"), "none")
         /\ UNCHANGED <<serialports, loops, sink>>
    ELSE IF info.sender # NoSender /\ ~SendOk(loops, info.sender)
    THEN /\ last' = Returned("cancel_read", Err("CancelFailed"), "none")
         /\ UNCHANGED <<serialports, loops, sink>>
    ELSE /\ info.sender # NoSender => Room(info.sender)
         /\ loops' = IF info.sender # NoSender THEN Send(loops, info.sender) ELSE loops
         /\ last' = Returned("cancel_read", Ok(0), "none")
         /\ UNCHANGED <<serialports, sink>>

cancel_read(path) ==
    LET info == get_serialport(path) IN
    IF info = NoEntry
    THEN /\ last' = Returned("cancel_read", Err("NotFound"), "none")
         /\ UNCHANGED <<serialports, loops, sink>>
    ELSE IF info.sender # NoSender /\ ~SendOk(loops, info.sender)
    THEN /\ last' = Returned("cancel_read", Err("CancelFailed"), "none")
         /\ UNCHANGED <<serialports, loops, sink>>
    ELSE /\ info.sender # NoSender => Room(info.sender)
         /\ loops' = IF info.sender # NoSender THEN Send(loops, info.sender) ELSE loops
         /\ serialports' = [serialports EXCEPT ![path].sender = NoSender]
         /\ last' = Returned("cancel_read", Ok(0), "none")
         /\ UNCHANGED sink

close_all ==
    \E order \in Orders :
        LET walk == SignalAll(order, 1, loops) IN
        /\ \A p \in OpenPaths :
               serialports[p].sender # NoSender => Room(serialports[p].sender)
        /\ loops' = walk.loops
        /\ IF walk.ok
           THEN /\ serialports' = [p \in Paths |-> NoEntry]
                /\ last' = Returned("close_all", Ok(0), "none")
           ELSE /\ last' = Returned("close_all", Err("CancelFailed"), "none")
                /\ UNCHANGED serialports
        /\ UNCHANGED sink

force_close(path) ==
    LET serial == serialports[path] IN
    IF serial = NoEntry
    THEN /\ last' = Returned("force_close", Ok(0), "none")
         /\ UNCHANGED <<serialports, loops, sink>>
    ELSE IF serial.sender # NoSender /\ ~SendOk(loops, serial.sender)
    THEN /\ last' = Returned("force_close", Err("CancelFailed"), "none")
         /\ UNCHANGED <<serialports, loops, sink>>
    ELSE /\ serial.sender # NoSender => Room(serial.sender)
         /\ loops' = IF serial.sender # NoSender THEN Send(loops, serial.sender) ELSE loops
         /\ serialports' = [serialports EXCEPT ![path] = NoEntry]
         /\ last' = Returned("force_close", Ok(0), "none")
         /\ UNCHANGED sink

\* size.unwrap_or(1024)
BufferSize(size) == IF size = NoSize THEN DefaultSize ELSE size

\* The thread `read` spawns: it owns rx, the cloned handle and the buffer size.
\* recv is what its last rx.try_recv() returned.
NewLoop(path, size) ==
    [path |-> path, pc |-> "poll", signals |-> 0, size |-> BufferSize(size),
     recv |-> "Empty"]

\* A thread that has ended: its locals (path, buffer size) are gone, and the
\* signals still queued are dropped with the receiver.
Ended(l, pc) == [l EXCEPT !.pc = pc, !.signals = 0, !.size = 0, !.path = NoPath]

read(path, size, hw) ==
    LET info == get_serialport(path) IN
    IF info = NoEntry
    THEN /\ last' = Returned("read", Err("NotFound"), "none")
         /\ UNCHANGED <<serialports, loops, sink>>
    ELSE IF info.sender # NoSender
    THEN /\ last' = Returned("read", Ok(0), "none")
         /\ UNCHANGED <<serialports, loops, sink>>
    ELSE IF hw = "ok"
    THEN /\ Len(loops) < MaxLoops
         /\ loops' = Append(loops, NewLoop(path, size))
         /\ serialports' = [serialports EXCEPT ![path].sender = Len(loops) + 1]
         /\ last' = Returned("read", Ok(0), "clone")
         /\ UNCHANGED sink
    ELSE /\ last' = Returned("read", Err("CloneFailed"), "clone")
         /\ UNCHANGED <<serialports, loops, sink>>

\* serialport.write(bytes) on a payload of len bytes: the count the handle
\* accepted, or an I/O error.
WriteOutcomes(len) == {IoError} \cup (0..len)

\* write that reports the payload's length where the code reports what the
\* handle accepted.
write_ReturnsLen(path, len, hw) ==
    LET info == get_serialport(path) IN
    IF info = NoEntry
    THEN /\ last' = Returned("write", Err("NotFound"), "none")
         /\ UNCHANGED <<serialports, loops, sink>>
    ELSE /\ last' = IF hw = IoError THEN Returned("write", Err("WriteFailed"), "write")
                    ELSE Returned("write", Ok(len), "write")
         /\ UNCHANGED <<serialports, loops, sink>>

write(path, len, hw) ==
    LET info == get_serialport(path) IN
    IF info = NoEntry
    THEN /\ last' = Returned("write", Err("NotFound"), "none")
         /\ UNCHANGED <<serialports, loops, sink>>
    ELSE /\ last' = IF hw = IoError THEN Returned("write", Err("WriteFailed"), "write")
                    ELSE Returned("write", Ok(hw), "write")
         /\ UNCHANGED <<serialports, loops, sink>>

write_binary(path, len, hw) ==
    LET info == get_serialport(path) IN
    IF info = NoEntry
    THEN /\ last' = Returned("write_binary", Err("NotFound"), "none")
         /\ UNCHANGED <<serialports, loops, sink>>
    ELSE /\ last' = IF hw = IoError THEN Returned("write_binary", Err("WriteFailed"), "write")
                    ELSE Returned("write_binary", Ok(hw), "write")
         /\ UNCHANGED <<serialports, loops, sink>>

\* ------------------------------------------------------------ read loop
\* A poll whose Ok and Disconnected arms lack the break.
ReadLoopPoll_NoBreak(id) ==
    /\ loops[id].pc = "poll"
    /\ LET r == TryRecv(id) IN
       loops' = [loops EXCEPT
            ![id].recv = r,
            ![id].signals = IF r = "Ok" THEN @ - 1 ELSE @,
            ![id].pc = "cycle"]
    /\ UNCHANGED <<serialports, sink, last>>

\* A poll that breaks on a signal only: Disconnected is handled like Empty.
ReadLoopPoll_IgnoresDisconnected(id) ==
    /\ loops[id].pc = "poll"
    /\ LET r == TryRecv(id) IN
       loops' = [loops EXCEPT ![id] =
            IF r = "Ok" THEN Ended([@ EXCEPT !.recv = r], "stopped")
            ELSE [@ EXCEPT !.recv = r, !.pc = "cycle"]]
    /\ UNCHANGED <<serialports, sink, last>>

\* rx.try_recv() at the top of an iteration: a signal or a disconnection breaks.
ReadLoopPoll(id) ==
    /\ loops[id].pc = "poll"
    /\ LET r == TryRecv(id) IN
       loops' = [loops EXCEPT ![id] =
            IF r = "Empty" THEN [@ EXCEPT !.recv = r, !.pc = "cycle"]
            ELSE Ended([@ EXCEPT !.recv = r], "stopped")]
    /\ UNCHANGED <<serialports, sink, last>>

\* serial.read(buf) into a buffer of size bytes: Err, or Ok(n) with n <= size.
ReadOutcomes(size) ==
    {IoError} \cup (0..(IF size < MaxIo THEN size ELSE MaxIo))

\* Byte i of serial_buf, vec![0; size], after the hardware has written n bytes
\* (each 1) to its front.
BufAt(n, i) == IF i <= n THEN 1 ELSE 0

\* ReadData { data: &serial_buf[..size], size } after a read of n bytes
ReadData(path, n, size) ==
    [event |-> path, data |-> [i \in 1..size |-> BufAt(n, i)], size |-> size]

\* The rest of the iteration: allocate the buffer, read, emit, sleep.
ReadLoopCycle(id, rd, emit) ==
    /\ loops[id].pc = "cycle"
    /\ IF loops[id].size > IsizeMax
       THEN /\ loops' = [loops EXCEPT ![id] = Ended(@, "panicked")]
            /\ UNCHANGED sink
       ELSE /\ rd \in ReadOutcomes(loops[id].size)
            /\ loops' = [loops EXCEPT ![id].pc = "poll"]
            /\ sink' = IF rd # IoError /\ emit = "ok"
                       THEN ReadData(loops[id].path, rd, rd)
                       ELSE sink
    /\ UNCHANGED <<serialports, last>>

Next ==
    \/ \E p \in Paths, b \in BaudRates, hw \in HwOutcomes : open(p, b, hw)
    \/ \E p \in Paths : close(p)
    \/ close_all
    \/ \E p \in Paths : force_close(p)
    \/ \E p \in Paths : cancel_read(p)
    \/ \E p \in Paths, size \in Sizes, hw \in HwOutcomes : read(p, size, hw)
    \/ \E p \in Paths, len \in PayloadLens : \E hw \in WriteOutcomes(len) : write(p, len, hw)
    \/ \E p \in Paths, len \in PayloadLens : \E hw \in WriteOutcomes(len) : write_binary(p, len, hw)
    \/ \E id \in DOMAIN loops : ReadLoopPoll(id)
    \/ \E id \in DOMAIN loops, rd \in {IoError} \cup (0..MaxIo), emit \in HwOutcomes :
           ReadLoopCycle(id, rd, emit)

Spec == Init /\ [][Next]_vars

\* One step of the thread of loop id.  The thread is scheduled by the OS, and
\* each of its blocking calls returns: try_recv at once, serial.read within the
\* port's timeout, thread::sleep after its duration.
LoopStep(id) ==
    /\ id \in DOMAIN loops
    /\ \/ ReadLoopPoll(id)
       \/ \E rd \in {IoError} \cup (0..MaxIo), emit \in HwOutcomes :
              ReadLoopCycle(id, rd, emit)

\* The commands are invoked when the front end chooses; the threads keep running.
FairSpec == Spec /\ \A id \in 1..MaxLoops : WF_vars(LoopStep(id))

\* ------------------------------------------------------------ vocabulary
HasEntry(p) == serialports[p] # NoEntry
HasSender(p) == HasEntry(p) /\ serialports[p].sender # NoSender
\* A read loop that has not reached STOPPED (nor died).
Active(id) == loops[id].pc \in {"poll", "cycle"}
\* The loop's last poll found a signal or found the sender dropped.
Observed(id) == loops[id].recv \in {"Ok", "Disconnected"}
ActiveFor(p) == {id \in DOMAIN loops : Active(id) /\ loops[id].path = p}
\* The sender the entry of p holds refers to a thread that has ended.
Stale(p) == HasSender(p) /\ ~Active(serialports[p].sender)
IsOk(r) == r.tag = "Ok"
\* Loop id has been sent a signal it has not received yet, or its sender is gone
\* from the registry (cleared, or dropped with its entry).
Released(id) == loops[id].signals > 0 \/ ~SenderAlive(id)

\* ---------------------------------------------------------------- C1
\* C1: in every state an entry holds a sender iff a read loop started for it
\* is active.  Stated on each step and on the loops known to be the entry's own:
\* the loop its sender refers to, before or after the step, while the entry stays.
C1_SenderIffActive ==
    [][\A p \in Paths :
        (HasEntry(p) /\ serialports'[p] # NoEntry) =>
            LET sender == serialports'[p].sender
                own == {serialports[p].sender, sender} \ {NoSender}
            IN  /\ sender # NoSender => loops'[sender].pc \in {"poll", "cycle"}
                /\ sender = NoSender =>
                       \A id \in own : loops'[id].pc \notin {"poll", "cycle"}]_vars

\* ---------------------------------------------------------------- C2
\* C2: a close_all step either signals every active reader and empties the
\* registry, or fails with CancelFailed having changed neither the registry nor
\* any channel.
C2_CloseAllAtomic ==
    [][close_all =>
        \/ /\ last'.ret = Ok(0)
           /\ \A p \in Paths : serialports'[p] = NoEntry
           /\ \A p \in Paths : HasSender(p) =>
                  loops'[serialports[p].sender].signals =
                      loops[serialports[p].sender].signals + 1
        \/ /\ last'.ret = Err("CancelFailed")
           /\ serialports' = serialports
           /\ loops' = loops]_vars

\* ---------------------------------------------------------------- C3
\* C3: a cancel_read step on an existing entry leaves it without a sender,
\* whether it returns Ok or CancelFailed.
C3_CancelClearsSender ==
    [][\A p \in Paths :
        (HasEntry(p) /\ cancel_read(p)) =>
            /\ last'.ret \in {Ok(0), Err("CancelFailed")}
            /\ serialports'[p] # NoEntry
            /\ serialports'[p].sender = NoSender]_vars

\* ---------------------------------------------------------------- C4
\* C4: a force_close step on an existing entry removes it and returns Ok, also
\* when the signal to its reader cannot be delivered.
C4_ForceCloseRemoves ==
    [][\A p \in Paths :
        (HasEntry(p) /\ force_close(p)) =>
            /\ last'.ret = Ok(0)
            /\ serialports'[p] = NoEntry]_vars

\* ---------------------------------------------------------------- C5
\* The session operations on path p, over all their inputs.
SessionOp(p) ==
    \/ close(p)
    \/ cancel_read(p)
    \/ \E size \in Sizes, hw \in HwOutcomes : read(p, size, hw)
    \/ \E len \in PayloadLens : \E hw \in WriteOutcomes(len) : write(p, len, hw)
    \/ \E len \in PayloadLens : \E hw \in WriteOutcomes(len) : write_binary(p, len, hw)

\* C5: on an identifier with no entry, read, write, write_binary, close and
\* cancel_read return NotFound, start no loop and leave the registry as it was.
C5_NotFound ==
    [][\A p \in Paths :
        (~HasEntry(p) /\ SessionOp(p)) =>
            /\ last'.ret = Err("NotFound")
            /\ last'.io = "none"
            /\ UNCHANGED <<serialports, loops, sink>>]_vars

\* A session operation has just failed with NotFound while the other port is open.
C5_Witness ==
    /\ last.ret = Err("NotFound")
    /\ \E p, q \in Paths : ~HasEntry(p) /\ HasSender(q)

\* ---------------------------------------------------------------- C6
\* C6: open on an identifier that has an entry returns AlreadyOpen, makes no
\* hardware call, and leaves the registry (handle and reader state) as it was.
C6_AlreadyOpen ==
    [][\A p \in Paths, b \in BaudRates, hw \in HwOutcomes :
        (HasEntry(p) /\ open(p, b, hw)) =>
            /\ last' = Returned("open", Err("AlreadyOpen"), "none")
            /\ UNCHANGED <<serialports, loops, sink>>]_vars

\* open has just been refused on a port that is open and being read.
C6_Witness ==
    /\ last.ret = Err("AlreadyOpen")
    /\ \E p \in Paths : HasSender(p) /\ Active(serialports[p].sender)

\* ---------------------------------------------------------------- C7
\* C7: a read step on an entry that has an active reader returns Ok, keeps the
\* stored sender, starts no loop, and leaves exactly one loop active for the
\* identifier.
C7_ReadIdempotent ==
    [][\A p \in Paths, size \in Sizes, hw \in HwOutcomes :
        (HasSender(p) /\ Active(serialports[p].sender) /\ read(p, size, hw)) =>
            /\ last'.ret = Ok(0)
            /\ UNCHANGED <<serialports, loops>>
            /\ Cardinality(ActiveFor(p)) = 1]_vars

\* ---------------------------------------------------------------- C8
\* C8: a loop that has observed the signal or the disconnection takes no further
\* step, and what reaches the sink afterwards comes from a loop that has not.
C8_NoChunkAfterObserved ==
    [][/\ \A id \in DOMAIN loops : Observed(id) => loops'[id] = loops[id]
       /\ sink' # sink =>
              \E id \in DOMAIN loops :
                  /\ ~Observed(id)
                  /\ loops[id].pc = "cycle"
                  /\ loops'[id].pc = "poll"
                  /\ sink'.event = loops[id].path]_vars

\* A loop has stopped on the disconnection that close causes, after it had
\* delivered a chunk for its port, which is no longer in the registry.
C8_Witness ==
    \E id \in DOMAIN loops :
        /\ loops[id].pc = "stopped"
        /\ loops[id].recv = "Disconnected"
        /\ sink # NoChunk

\* ---------------------------------------------------------------- C9
\* C9: when the hardware open fails, open returns OpenFailed and the registry is
\* as before the call.
C9_OpenFailed ==
    [][\A p \in Paths, b \in BaudRates :
        (~HasEntry(p) /\ open(p, b, "fail")) =>
            /\ last' = Returned("open", Err("OpenFailed"), "open")
            /\ UNCHANGED <<serialports, loops, sink>>]_vars

\* The hardware has just refused an open while the other port is open.
C9_Witness ==
    /\ last = Returned("open", Err("OpenFailed"), "open")
    /\ \E p, q \in Paths : ~HasEntry(p) /\ HasEntry(q)

\* --------------------------------------------------------------- C10
\* C10: a successful open leaves an entry without a reader; a successful close or
\* force_close leaves none; while there is none the session operations return
\* NotFound and only a successful open brings the entry back; that open is not
\* refused as AlreadyOpen.
C10_Lifecycle ==
    [][\A p \in Paths :
        /\ \A b \in BaudRates, hw \in HwOutcomes :
               (open(p, b, hw) /\ IsOk(last'.ret)) =>
                   /\ serialports'[p] # NoEntry
                   /\ serialports'[p].sender = NoSender
                   /\ serialports'[p].serialport = [path |-> p, baud_rate |-> b]
        /\ ((close(p) \/ force_close(p)) /\ IsOk(last'.ret)) =>
               serialports'[p] = NoEntry
        /\ (~HasEntry(p) /\ SessionOp(p)) => last'.ret = Err("NotFound")
        /\ (~HasEntry(p) /\ serialports'[p] # NoEntry) =>
               \E b \in BaudRates : open(p, b, "ok") /\ IsOk(last'.ret)
        /\ \A b \in BaudRates :
               (~HasEntry(p) /\ open(p, b, "ok")) => IsOk(last'.ret)]_vars

\* A port was opened and read, then closed, and an operation on it has just
\* failed with NotFound, its loop having stopped on the disconnection.
C10_Witness ==
    /\ last.ret = Err("NotFound")
    /\ \A p \in Paths : ~HasEntry(p)
    /\ \E id \in DOMAIN loops : loops[id].recv = "Disconnected"

\* --------------------------------------------------------------- C11
\* C11: a force_close step on an identifier with no entry fails with NotFound,
\* as close does, and leaves the registry as it was.
C11_ForceCloseNotFound ==
    [][\A p \in Paths :
        (~HasEntry(p) /\ force_close(p)) =>
            /\ last'.ret = Err("NotFound")
            /\ UNCHANGED <<serialports, loops, sink>>]_vars

\* --------------------------------------------------------------- C12
\* C12: write and write_binary on an existing entry return exactly the count the
\* handle accepted, or WriteFailed on an I/O error, and either way leave the
\* registry, the stored senders and every read loop as they were.
C12_WriteFrame ==
    [][\A p \in Paths, len \in PayloadLens : \A hw \in WriteOutcomes(len) :
        (HasEntry(p) /\ (write(p, len, hw) \/ write_binary(p, len, hw))) =>
            /\ last'.ret = IF hw = IoError THEN Err("WriteFailed") ELSE Ok(hw)
            /\ last'.io = "write"
            /\ UNCHANGED <<serialports, loops, sink>>]_vars

\* The handle has just accepted fewer bytes than the payload held, on a port
\* whose reader is running.
C12_Witness ==
    /\ last.op \in {"write", "write_binary"}
    /\ \E len \in PayloadLens : IsOk(last.ret) /\ last.ret.n < len
    /\ \E p \in Paths : HasSender(p) /\ Active(serialports[p].sender)

C14_NoIoUnderLock == last.io \notin {"write", "read"}

\* --------------------------------------------------------------- C15
\* C15: an iteration whose read failed or returned zero bytes leaves the sink as
\* it was, and what an iteration hands to the sink is a chunk of N > 0 bytes, the
\* N bytes read, with size N.
C15_ChunkOnlyNonEmpty ==
    [][\A id \in DOMAIN loops, rd \in {IoError} \cup (0..MaxIo), emit \in HwOutcomes :
        ReadLoopCycle(id, rd, emit) =>
            /\ (rd = IoError \/ rd = 0) => sink' = sink
            /\ sink' # sink =>
                   /\ sink'.size > 0
                   /\ Len(sink'.data) = sink'.size
                   /\ \A i \in 1..sink'.size : sink'.data[i] = 1]_vars

\* --------------------------------------------------------------- C16
\* C16: a loop leaves RUNNING only in a poll that finds a signal or finds the
\* sender dropped, and then it is STOPPED; a read cycle, whatever its read and
\* its emit return, leaves it RUNNING; a STOPPED loop never changes again.
C16_ExitOnlyByPoll ==
    [][\A id \in DOMAIN loops :
        /\ (Active(id) /\ loops'[id].pc \notin {"poll", "cycle"}) =>
               /\ loops[id].pc = "poll"
               /\ TryRecv(id) \in {"Ok", "Disconnected"}
               /\ loops'[id].pc = "stopped"
        /\ loops[id].pc = "stopped" => loops'[id] = loops[id]]_vars

\* --------------------------------------------------------------- C17
\* C17: the registry holds at most one entry per identifier, the one stored under
\* it by the open that found it absent: of the open calls made for an identifier,
\* in any order with the other commands, the one that finds it absent (and whose
\* hardware open succeeds) inserts the entry, every one that finds it present is
\* refused as AlreadyOpen, and no step puts another entry in the place of one
\* that is there.
C17_OneEntryPerId ==
    [][\A p \in Paths :
        /\ \A b \in BaudRates, hw \in HwOutcomes :
               open(p, b, hw) =>
                   /\ IsOk(last'.ret) <=> (~HasEntry(p) /\ hw = "ok")
                   /\ HasEntry(p) =>
                          /\ last'.ret = Err("AlreadyOpen")
                          /\ serialports'[p] = serialports[p]
        /\ (HasEntry(p) /\ serialports'[p] # NoEntry) =>
               serialports'[p].serialport = serialports[p].serialport
        /\ (~HasEntry(p) /\ serialports'[p] # NoEntry) =>
               /\ \E b \in BaudRates : open(p, b, "ok")
               /\ serialports'[p].serialport.path = p
               /\ \A q \in Paths \ {p} : serialports'[q] = serialports[q]]_vars

\* Two open calls were made for the same absent identifier and nothing else: the
\* registry holds the one entry and the later call has been refused.
C17_Witness ==
    /\ last = Returned("open", Err("AlreadyOpen"), "none")
    /\ loops = <<>>
    /\ Cardinality(OpenPaths) = 1

\* --------------------------------------------------------------- C18
\* C18: in every state at most one read loop that has not reached STOPPED exists
\* for each identifier.
C18_OneLoopPerId == \A p \in Paths : Cardinality(ActiveFor(p)) <= 1

\* --------------------------------------------------------------- C19
\* Every loop that has ended so far ended in its cancellation poll.
ExitsOnlyThroughPoll == \A id \in DOMAIN loops : loops[id].pc # "panicked"

\* C19: provided every loop that ended did so in its cancellation poll, an entry
\* that stores a sender has a running loop behind it, and no cancel_read,
\* force_close or close_all has returned CancelFailed.
C19_NoStaleSender ==
    ExitsOnlyThroughPoll =>
        /\ \A p \in Paths : ~Stale(p)
        /\ last.ret # Err("CancelFailed")

\* A loop has stopped on the signal of a cancel_read that succeeded, another
\* entry stores the sender of a running loop, and no loop ended any other way.
C19_Witness ==
    /\ ExitsOnlyThroughPoll
    /\ last = Returned("cancel_read", Ok(0), "none")
    /\ \E id \in DOMAIN loops : loops[id].pc = "stopped" /\ loops[id].recv = "Ok"
    /\ \E p \in Paths : HasSender(p) /\ Active(serialports[p].sender)

\* --------------------------------------------------------------- C20
\* C20: once a running loop has been sent the signal or has lost its sender, it
\* stays so until it ends; if it is at its poll it goes nowhere but to STOPPED,
\* and if it is inside an iteration it goes nowhere but to the end of that
\* iteration, with at most the one chunk of that iteration handed to the sink.
\* So it makes at most one further read cycle before it stops.
C20_AtMostOneMoreCycle ==
    [][\A id \in DOMAIN loops :
        (Active(id) /\ Released(id)) =>
            /\ loops'[id].pc \in {"poll", "cycle"} => Released(id)'
            /\ loops[id].pc = "poll" => loops'[id].pc \in {"poll", "stopped"}
            /\ loops[id].pc = "cycle" => loops'[id].pc \in {"cycle", "poll", "panicked"}
            /\ (loops[id].pc = "cycle" /\ loops'[id].pc = "poll") =>
                   sink' \in {sink} \cup
                       {ReadData(loops[id].path, n, n) : n \in 0..MaxIo}]_vars

\* A loop was signalled after its poll had found the channel empty: it is inside
\* the one iteration it still makes.
C20_Witness ==
    \E id \in DOMAIN loops :
        /\ loops[id].pc = "cycle"
        /\ loops[id].signals > 0
        /\ loops[id].size <= IsizeMax

====
